---- MODULE Spec2Model ----
(***************************************************************************)
(* Model of the artificial genome: the gene scanner (GeneIterator), the    *)
(* construction of the gene regulatory network (Genome::construct_network) *)
(* the graph development driven by it (Edge::develop, GraphBuilder), the    *)
(* collapse of the developed edge list (GraphBuilder::into_node_graph), the *)
(* path search on the result (NodeGraph::into_structured_graph) and the     *)
(* successor of a base (Base::succ).                                        *)
(*                                                                         *)
(* Indices are 0-based as in the source.  A slice (&[B]) into the genome is *)
(* a record [off, len]: the view starts `off` symbols into the genome.     *)
(* An f32 length is the dyadic rational num / 2^exp with num odd, which is  *)
(* exact for the values the model reaches (num < 2^24).                    *)
(***************************************************************************)
EXTENDS Integers, Sequences, FiniteSets, TLC

VARIABLES
    genome,          \* Genome.genome: the sequence of bases (Base4: 0..3)
    promoter,        \* GeneIterator.promoter
    length_of_gene,  \* GeneIterator.length_of_gene
    sequence,        \* GeneIterator.sequence: the unconsumed remainder, a slice
    ret,             \* what the last GeneIterator::next() call returned
    genes,           \* the genes returned so far, in order
    calls,           \* number of next() calls made
    net_result,      \* what construct_network returned
    regulation,      \* the protein_regulation function construct_network was given
    network,         \* GraphBuilder.network
    zygote,          \* the state GraphBuilder::new was given
    edges,           \* GraphBuilder.edges
    next_node_id,    \* GraphBuilder.next_node_id
    generation,      \* number of GraphBuilder::next() calls made
    allocated,       \* the node ids allocated by splits, in order, each with the
                     \* node ids in use at that moment
    node_graph,      \* what GraphBuilder::into_node_graph returned
    type_processing, \* the threshold into_structured_graph was given
    structured_graph,\* what NodeGraph::into_structured_graph returned
    alphabet,        \* the base type of a base string: "Base4" or "DNABase"
    origin,          \* a base string
    image,           \* origin after `applications` applications of succ to each base
    applications     \* number of times succ was applied

scanVars == <<genome, promoter, length_of_gene, sequence, ret, genes, calls,
              net_result, regulation>>

devVars == <<network, zygote, edges, next_node_id, generation, allocated>>

graphVars == <<node_graph, type_processing, structured_graph>>

baseVars == <<alphabet, origin, image, applications>>

vars == <<scanVars, devVars, graphVars, baseVars>>

----------------------------------------------------------------------------
(* Bounds of the model. *)

MaxGenomeLen == 4

MaxPromoterLen == 1

MaxGeneLen == 1

MaxCalls == 3

MaxGen == 3

MaxLenMismatch == 1

MaxStringLen == 2

MaxEdges == 2

MaxNodeId == 2

MaxTypeCount == 1

MaxApplications == 4

----------------------------------------------------------------------------
(* Option<T>, and the outcome of a call that hit a failed assert!. *)

None == [some |-> FALSE]

Some(v) == [some |-> TRUE, val |-> v]

Panic == [some |-> FALSE, panic |-> TRUE]

NotCalled == [some |-> FALSE, called |-> FALSE]

IsPanic(r) == "panic" \in DOMAIN r

IsCalled(r) == ~("called" \in DOMAIN r)

----------------------------------------------------------------------------
(* Bases. *)

NumBases == 4

Bases == 0 .. (NumBases - 1)

Base4Succ(b) == (b + 1) % 4

DNABases == {"A", "T", "G", "C"}

(* Mutant: C is its own successor. *)
DNABaseSuccNoWrap(b) ==
    CASE b = "A" -> "T"
      [] b = "T" -> "G"
      [] b = "G" -> "C"
      [] b = "C" -> "C"

DNABaseSucc(b) ==
    CASE b = "A" -> "T"
      [] b = "T" -> "G"
      [] b = "G" -> "C"
      [] b = "C" -> "A"

(* The implementations of Base: the symbols of each and its succ. *)

Alphabets == {"Base4", "DNABase"}

Symbols(a) == IF a = "Base4" THEN Bases ELSE DNABases

succ(a, b) == IF a = "Base4" THEN Base4Succ(b) ELSE DNABaseSucc(b)

RECURSIVE SeqsOfLen(_)
SeqsOfLen(n) ==
    IF n = 0 THEN {<<>>}
    ELSE {Append(s, b) : s \in SeqsOfLen(n - 1), b \in Bases}

SeqsUpTo(n) == UNION {SeqsOfLen(k) : k \in 0 .. n}

----------------------------------------------------------------------------
(* Slices. *)

SliceOf(s, from, to) == [off |-> s.off + from, len |-> to - from]

Content(g, s) == SubSeq(g, s.off + 1, s.off + s.len)

Window(s, i, n) == SubSeq(s, i + 1, i + n)

----------------------------------------------------------------------------
(* locate_substr: the index of the first window of s equal to substr.      *)
(* The caller has checked the assert (substr non-empty).                    *)

(* Mutant: the last matching window instead of the first. *)
RECURSIVE LocateLastFrom(_, _, _)
LocateLastFrom(s, substr, i) ==
    IF i + Len(substr) > Len(s) THEN None
    ELSE LET later == LocateLastFrom(s, substr, i + 1) IN
         IF later.some THEN later
         ELSE IF Window(s, i, Len(substr)) = substr THEN Some(i)
         ELSE None

RECURSIVE LocateFrom(_, _, _)
LocateFrom(s, substr, i) ==
    IF i + Len(substr) > Len(s) THEN None
    ELSE IF Window(s, i, Len(substr)) = substr THEN Some(i)
    ELSE LocateFrom(s, substr, i + 1)

locate_substr(s, substr) ==
    IF Len(s) < Len(substr) THEN None ELSE LocateFrom(s, substr, 0)

(* count_substr: the number of windows of s equal to substr. *)

RECURSIVE CountFrom(_, _, _, _)
CountFrom(s, substr, i, cnt) ==
    IF i + Len(substr) > Len(s) THEN cnt
    ELSE CountFrom(s, substr, i + 1,
                   IF Window(s, i, Len(substr)) = substr THEN cnt + 1 ELSE cnt)

count_substr(s, substr) == CountFrom(s, substr, 0, 0)

----------------------------------------------------------------------------
(* GeneIterator::next on the remainder seq of genome g: the value returned *)
(* and the new remainder.  An empty promoter fails locate_substr's assert.  *)

(* Mutant: the remainder restarts at the coding region instead of after it. *)
GeneIteratorNextKeepGene(g, seq, prom, len_gene) ==
    IF Len(prom) = 0 THEN [ret |-> Panic, sequence |-> seq]
    ELSE LET found == locate_substr(Content(g, seq), prom) IN
         IF found.some
         THEN LET pos == found.val
                  gene_start == pos + Len(prom)
                  gene_end == gene_start + len_gene
              IN  IF gene_end > seq.len
                  THEN [ret |-> None, sequence |-> seq]
                  ELSE [ret |-> Some([regulatory_region |-> SliceOf(seq, 0, pos),
                                      gene |-> SliceOf(seq, gene_start, gene_end)]),
                        sequence |-> SliceOf(seq, gene_start, seq.len)]
         ELSE [ret |-> None, sequence |-> seq]

(* Mutant: an incomplete gene is returned cut at the end of the genome. *)
GeneIteratorNextTruncate(g, seq, prom, len_gene) ==
    IF Len(prom) = 0 THEN [ret |-> Panic, sequence |-> seq]
    ELSE LET found == locate_substr(Content(g, seq), prom) IN
         IF found.some
         THEN LET pos == found.val
                  gene_start == pos + Len(prom)
                  gene_end == IF gene_start + len_gene > seq.len
                              THEN seq.len
                              ELSE gene_start + len_gene
              IN  [ret |-> Some([regulatory_region |-> SliceOf(seq, 0, pos),
                                 gene |-> SliceOf(seq, gene_start, gene_end)]),
                   sequence |-> SliceOf(seq, gene_end, seq.len)]
         ELSE [ret |-> None, sequence |-> seq]

(* Mutant: locate_substr has no assert, and an empty promoter matches at the *)
(* start of the remainder. *)
GeneIteratorNextNoAssert(g, seq, prom, len_gene) ==
    LET found == locate_substr(Content(g, seq), prom) IN
    IF found.some
    THEN LET pos == found.val
             gene_start == pos + Len(prom)
             gene_end == gene_start + len_gene
         IN  IF gene_end > seq.len
             THEN [ret |-> None, sequence |-> seq]
             ELSE [ret |-> Some([regulatory_region |-> SliceOf(seq, 0, pos),
                                 gene |-> SliceOf(seq, gene_start, gene_end)]),
                   sequence |-> SliceOf(seq, gene_end, seq.len)]
    ELSE [ret |-> None, sequence |-> seq]

GeneIteratorNext(g, seq, prom, len_gene) ==
    IF Len(prom) = 0 THEN [ret |-> Panic, sequence |-> seq]
    ELSE LET found == locate_substr(Content(g, seq), prom) IN
         IF found.some
         THEN LET pos == found.val
                  gene_start == pos + Len(prom)
                  gene_end == gene_start + len_gene
              IN  IF gene_end > seq.len
                  THEN [ret |-> None, sequence |-> seq]
                  ELSE [ret |-> Some([regulatory_region |-> SliceOf(seq, 0, pos),
                                      gene |-> SliceOf(seq, gene_start, gene_end)]),
                        sequence |-> SliceOf(seq, gene_end, seq.len)]
         ELSE [ret |-> None, sequence |-> seq]

(* Genome::iter_genes(..).collect(): every gene next() returns until it     *)
(* returns None. *)

RECURSIVE CollectGenes(_, _, _, _, _)
CollectGenes(g, seq, prom, len_gene, acc) ==
    LET r == GeneIteratorNext(g, seq, prom, len_gene) IN
    IF r.ret.some
    THEN CollectGenes(g, r.sequence, prom, len_gene, Append(acc, r.ret.val))
    ELSE acc

iter_genes(g) == [off |-> 0, len |-> Len(g)]

(* Gene::product: each base of the coding region replaced by its successor. *)

product(g, gene) ==
    LET c == Content(g, gene.gene) IN [i \in 1 .. Len(c) |-> Base4Succ(c[i])]

(* The protein_regulation closures: the one of main (a product ending in   *)
(* B0 inhibits, any other enhances), and the two constant ones.            *)

Regulations == {"main", "enhance", "inhibit"}

protein_regulation(mode, prod) ==
    CASE mode = "main" -> IF Len(prod) > 0 /\ prod[Len(prod)] = 0 THEN -1 ELSE 1
      [] mode = "enhance" -> 1
      [] mode = "inhibit" -> -1

(* GeneNetwork::new and GeneNetwork::add_edge.  nodes[i + 1] is node i. *)

GeneNetworkNew(num_nodes) ==
    [nodes |-> [i \in 1 .. num_nodes |-> [incoming_edges |-> <<>>]]]

add_edge(net, src, dst, weight) ==
    [net EXCEPT !.nodes[dst + 1].incoming_edges =
                    Append(@, [src |-> src, weight |-> weight])]

(* The double loop of construct_network over (src, dst), k = src * n + dst. *)

(* Mutant: a gene does not regulate itself (the check left commented out). *)
RECURSIVE AddEdgesNoSelf(_, _, _, _, _)
AddEdgesNoSelf(g, gs, mode, net, k) ==
    LET n == Len(gs) IN
    IF k >= n * n THEN net
    ELSE LET src == k \div n
             dst == k % n
             prod == product(g, gs[src + 1])
             regulator == protein_regulation(mode, prod)
             factor == count_substr(Content(g, gs[dst + 1].regulatory_region), prod)
         IN  AddEdgesNoSelf(g, gs, mode,
                            IF factor > 0 /\ src # dst
                            THEN add_edge(net, src, dst, regulator * factor)
                            ELSE net,
                            k + 1)

(* Mutant: an edge is added for every pair, also with factor 0. *)
RECURSIVE AddEdgesAlways(_, _, _, _, _)
AddEdgesAlways(g, gs, mode, net, k) ==
    LET n == Len(gs) IN
    IF k >= n * n THEN net
    ELSE LET src == k \div n
             dst == k % n
             prod == product(g, gs[src + 1])
             regulator == protein_regulation(mode, prod)
             factor == count_substr(Content(g, gs[dst + 1].regulatory_region), prod)
         IN  AddEdgesAlways(g, gs, mode,
                            add_edge(net, src, dst, regulator * factor),
                            k + 1)

RECURSIVE AddEdgesFrom(_, _, _, _, _)
AddEdgesFrom(g, gs, mode, net, k) ==
    LET n == Len(gs) IN
    IF k >= n * n THEN net
    ELSE LET src == k \div n
             dst == k % n
             prod == product(g, gs[src + 1])
             regulator == protein_regulation(mode, prod)
             factor == count_substr(Content(g, gs[dst + 1].regulatory_region), prod)
         IN  AddEdgesFrom(g, gs, mode,
                          IF factor > 0
                          THEN add_edge(net, src, dst, regulator * factor)
                          ELSE net,
                          k + 1)

(* Genome::construct_network.  An empty promoter fails the assert of        *)
(* locate_substr in the first next(); an empty product (length_of_gene 0)    *)
(* fails the assert of count_substr in the first pass of the inner loop.    *)

(* Mutant: the check for an empty gene list is missing, and                 *)
(* GeneNetwork::new(0) fails its assert. *)
construct_network_unchecked(g, prom, len_gene, mode) ==
    IF Len(prom) = 0 THEN Panic
    ELSE LET gs == CollectGenes(g, iter_genes(g), prom, len_gene, <<>>) IN
         IF Len(gs) = 0 THEN Panic
         ELSE IF len_gene = 0 THEN Panic
         ELSE Some(AddEdgesFrom(g, gs, mode, GeneNetworkNew(Len(gs)), 0))

construct_network(g, prom, len_gene, mode) ==
    IF Len(prom) = 0 THEN Panic
    ELSE LET gs == CollectGenes(g, iter_genes(g), prom, len_gene, <<>>) IN
         IF Len(gs) = 0 THEN None
         ELSE IF len_gene = 0 THEN Panic
         ELSE Some(AddEdgesFrom(g, gs, mode, GeneNetworkNew(Len(gs)), 0))

----------------------------------------------------------------------------
(* The scanner and the network construction on a genome.                   *)

(* Inputs (genome, promoter, length_of_gene): every small one, and the     *)
(* longer ones of the scenarios.                                           *)

SmallInputs ==
    {<<g, p, l>> : g \in SeqsUpTo(MaxGenomeLen), p \in SeqsUpTo(MaxPromoterLen),
                   l \in 0 .. MaxGeneLen}

ScenarioInputs ==
    { <<(<<0, 1, 0, 1, 1, 1, 1, 1>>), (<<0, 1, 0, 1>>), 4>>,
      <<(<<1, 1, 1, 3, 0, 0>>), (<<3>>), 2>>,
      <<(<<2, 0, 1, 1, 0, 3, 2, 1, 0, 0>>), (<<0>>), 1>>,
      <<(<<1, 1, 1, 0, 3, 0, 0, 1, 1, 3, 0, 3, 3, 1>>), (<<3>>), 2>>,
      <<(<<0, 0, 2, 0, 0>>), (<<0>>), 1>>,
      <<(<<3, 0, 0, 3, 1>>), (<<3>>), 2>> }

ScanInputs == SmallInputs \cup ScenarioInputs

DevIdle ==
    /\ network = None
    /\ zygote = None
    /\ edges = <<>>
    /\ next_node_id = 0
    /\ generation = 0
    /\ allocated = <<>>

ScanIdle ==
    /\ genome = <<>>
    /\ promoter = <<>>
    /\ length_of_gene = 0
    /\ sequence = iter_genes(genome)
    /\ ret = NotCalled
    /\ genes = <<>>
    /\ calls = 0
    /\ net_result = NotCalled
    /\ regulation = "none"

GraphIdle ==
    /\ node_graph = NotCalled
    /\ type_processing = 0
    /\ structured_graph = NotCalled

BaseIdle ==
    /\ alphabet = "Base4"
    /\ origin = <<>>
    /\ image = <<>>
    /\ applications = 0

ScanInit ==
    /\ \E inp \in ScanInputs :
          /\ genome = inp[1]
          /\ promoter = inp[2]
          /\ length_of_gene = inp[3]
    /\ sequence = iter_genes(genome)
    /\ ret = NotCalled
    /\ genes = <<>>
    /\ calls = 0
    /\ net_result = NotCalled
    /\ regulation = "none"
    /\ DevIdle
    /\ GraphIdle
    /\ BaseIdle

Aborted == IsPanic(ret) \/ IsPanic(net_result)

(* The genome is immutable and construct_network scans it with an iterator *)
(* of its own, so the two uses below do not affect each other: each is      *)
(* explored from the initial state.                                        *)

(* One call of GeneIterator::next on the iterator iter_genes returned. *)
IterNext ==
    /\ ~Aborted
    /\ ~IsCalled(net_result)
    /\ calls < MaxCalls
    /\ LET r == GeneIteratorNext(genome, sequence, promoter, length_of_gene) IN
         /\ ret' = r.ret
         /\ sequence' = r.sequence
         /\ genes' = IF r.ret.some THEN Append(genes, r.ret.val) ELSE genes
    /\ calls' = calls + 1
    /\ UNCHANGED <<genome, promoter, length_of_gene, net_result, regulation, devVars,
                   graphVars, baseVars>>

(* One call of Genome::construct_network with the regulation mode. *)
ConstructNetwork(mode) ==
    /\ ~Aborted
    /\ ~IsCalled(net_result)
    /\ calls = 0
    /\ net_result' = construct_network(genome, promoter, length_of_gene, mode)
    /\ regulation' = mode
    /\ UNCHANGED <<genome, promoter, length_of_gene, sequence, ret, genes, calls, devVars,
                   graphVars, baseVars>>

ScanNext ==
    \/ IterNext
    \/ \E mode \in Regulations : ConstructNetwork(mode)

SpecScan == ScanInit /\ [][ScanNext]_vars

----------------------------------------------------------------------------
(* FixedBitSet: [len, bits], bits a subset of 0 .. len - 1.  contains of an *)
(* index past the end is false; insert and set of an index past the end    *)
(* fail their assertion, which leaves the bit set marked failed.            *)

BitSets(n) == {[len |-> n, bits |-> b] : b \in SUBSET (0 .. (n - 1))}

with_capacity(n) == [len |-> n, bits |-> {}]

(* Mutant: a bit past the end reads as set. *)
ContainsPastEndSet(bs, i) == i \in bs.bits \/ i >= bs.len

contains(bs, i) == i \in bs.bits

Failed(bs) == [len |-> bs.len, bits |-> bs.bits, failed |-> TRUE]

HasFailed(bs) == "failed" \in DOMAIN bs

insert(bs, i) ==
    IF i < bs.len THEN [bs EXCEPT !.bits = @ \cup {i}] ELSE Failed(bs)

set(bs, i, enabled) ==
    IF i < bs.len
    THEN [bs EXCEPT !.bits = IF enabled THEN @ \cup {i} ELSE @ \ {i}]
    ELSE Failed(bs)

(* GeneNetwork::new_state *)
new_state(net) == with_capacity(Len(net.nodes))

(* Node::sum_edges: the loop over the incoming edges, from edge k on. *)

RECURSIVE SumEdgesFrom(_, _, _, _)
SumEdgesFrom(node, network_state, k, sum) ==
    IF k > Len(node.incoming_edges) THEN sum
    ELSE LET edge == node.incoming_edges[k]
             factor == IF contains(network_state, edge.src) THEN 1 ELSE 0
         IN  SumEdgesFrom(node, network_state, k + 1, sum + factor * edge.weight)

sum_edges(node, network_state) == SumEdgesFrom(node, network_state, 1, 0)

(* Edge::transition_state: the loop over the nodes, from node i on; every   *)
(* sum reads old_state, the bits go to new. *)

(* Mutant: the sums read the state being written. *)
RECURSIVE TransitionInPlace(_, _, _, _)
TransitionInPlace(net, old_state, i, new) ==
    IF i >= Len(net.nodes) THEN new
    ELSE TransitionInPlace(net, old_state, i + 1,
                           IF sum_edges(net.nodes[i + 1], new) > 0
                           THEN insert(new, i)
                           ELSE new)

RECURSIVE TransitionFrom(_, _, _, _)
TransitionFrom(net, old_state, i, new) ==
    IF i >= Len(net.nodes) THEN new
    ELSE TransitionFrom(net, old_state, i + 1,
                        IF sum_edges(net.nodes[i + 1], old_state) > 0
                        THEN insert(new, i)
                        ELSE new)

transition_state(net, old_state) == TransitionFrom(net, old_state, 0, new_state(net))

----------------------------------------------------------------------------
(* Edge::develop *)

EDGE_DIFFERENTIATION == 0

EDGE_SPLIT == 1

EDGE_DUPLICATE == 2

EDGE_SWAP == 3

EDGE_GROW == 4

EDGE_SHRINK == 5

EDGE_TYPE == 6

(* f32 lengths num / 2^exp, num odd. *)

LengthOne == [num |-> 1, exp |-> 0]

Half(l) == [num |-> l.num, exp |-> l.exp + 1]

(* l + RESIZE_FACTOR * l and l - RESIZE_FACTOR * l, RESIZE_FACTOR = 0.25 *)

Grown(l) == [num |-> 5 * l.num, exp |-> l.exp + 2]

Shrunk(l) == [num |-> 3 * l.num, exp |-> l.exp + 2]

(* f32 addition of two lengths num / 2^exp (exact for the sums the model   *)
(* reaches), and 0.0. *)

LengthZero == [num |-> 0, exp |-> 0]

RECURSIVE Pow2(_)
Pow2(n) == IF n = 0 THEN 1 ELSE 2 * Pow2(n - 1)

RECURSIVE Normal(_, _)
Normal(num, exp) ==
    IF num = 0 THEN LengthZero
    ELSE IF num % 2 = 0 /\ exp > 0 THEN Normal(num \div 2, exp - 1)
    ELSE [num |-> num, exp |-> exp]

Add(a, b) ==
    LET exp == IF a.exp > b.exp THEN a.exp ELSE b.exp IN
    Normal(a.num * Pow2(exp - a.exp) + b.num * Pow2(exp - b.exp), exp)

(* The child state of split and duplicate: the flag bit inverted. *)
child_state(st) ==
    set(st, EDGE_DIFFERENTIATION, ~contains(st, EDGE_DIFFERENTIATION))

(* The rules in the order of the source, each on the record                *)
(* [edge, next_node_id, new_edges] the one before left.                     *)

(* Mutant: the split does not advance next_node_id. *)
RuleSplitSameId(d) ==
    IF contains(d.edge.network_state, EDGE_SPLIT)
    THEN LET new_node == d.next_node_id
             new_edge == [src_node |-> new_node,
                          dst_node |-> d.edge.dst_node,
                          length |-> Half(d.edge.length),
                          network_state |-> child_state(d.edge.network_state),
                          type_count |-> d.edge.type_count]
         IN  [edge |-> [d.edge EXCEPT !.dst_node = new_node, !.length = Half(@)],
              next_node_id |-> d.next_node_id,
              new_edges |-> Append(d.new_edges, new_edge)]
    ELSE d

(* Mutant: the split leaves the parent's length as it was. *)
RuleSplitKeepLength(d) ==
    IF contains(d.edge.network_state, EDGE_SPLIT)
    THEN LET new_node == d.next_node_id
             new_edge == [src_node |-> new_node,
                          dst_node |-> d.edge.dst_node,
                          length |-> Half(d.edge.length),
                          network_state |-> child_state(d.edge.network_state),
                          type_count |-> d.edge.type_count]
         IN  [edge |-> [d.edge EXCEPT !.dst_node = new_node],
              next_node_id |-> d.next_node_id + 1,
              new_edges |-> Append(d.new_edges, new_edge)]
    ELSE d

(* Mutant: the child of the split carries the parent's state as it is. *)
RuleSplitNoInvert(d) ==
    IF contains(d.edge.network_state, EDGE_SPLIT)
    THEN LET new_node == d.next_node_id
             new_edge == [src_node |-> new_node,
                          dst_node |-> d.edge.dst_node,
                          length |-> Half(d.edge.length),
                          network_state |-> d.edge.network_state,
                          type_count |-> d.edge.type_count]
         IN  [edge |-> [d.edge EXCEPT !.dst_node = new_node, !.length = Half(@)],
              next_node_id |-> d.next_node_id + 1,
              new_edges |-> Append(d.new_edges, new_edge)]
    ELSE d

(* Mutant: the child of the split is built after the parent was retargeted. *)
RuleSplitRetargetFirst(d) ==
    IF contains(d.edge.network_state, EDGE_SPLIT)
    THEN LET new_node == d.next_node_id
             new_edge == [src_node |-> new_node,
                          dst_node |-> new_node,
                          length |-> Half(d.edge.length),
                          network_state |-> child_state(d.edge.network_state),
                          type_count |-> d.edge.type_count]
         IN  [edge |-> [d.edge EXCEPT !.dst_node = new_node, !.length = Half(@)],
              next_node_id |-> d.next_node_id + 1,
              new_edges |-> Append(d.new_edges, new_edge)]
    ELSE d

RuleSplit(d) ==
    IF contains(d.edge.network_state, EDGE_SPLIT)
    THEN LET new_node == d.next_node_id
             new_edge == [src_node |-> new_node,
                          dst_node |-> d.edge.dst_node,
                          length |-> Half(d.edge.length),
                          network_state |-> child_state(d.edge.network_state),
                          type_count |-> d.edge.type_count]
         IN  [edge |-> [d.edge EXCEPT !.dst_node = new_node, !.length = Half(@)],
              next_node_id |-> d.next_node_id + 1,
              new_edges |-> Append(d.new_edges, new_edge)]
    ELSE d

(* Mutant: the duplicate has the direction of the parent. *)
RuleDuplicateSameDirection(d) ==
    IF contains(d.edge.network_state, EDGE_DUPLICATE)
    THEN LET new_edge == [src_node |-> d.edge.src_node,
                          dst_node |-> d.edge.dst_node,
                          length |-> d.edge.length,
                          network_state |-> child_state(d.edge.network_state),
                          type_count |-> d.edge.type_count]
         IN  [d EXCEPT !.new_edges = Append(@, new_edge)]
    ELSE d

(* Mutant: the duplicate starts with type_count 0. *)
RuleDuplicateZeroCount(d) ==
    IF contains(d.edge.network_state, EDGE_DUPLICATE)
    THEN LET new_edge == [src_node |-> d.edge.dst_node,
                          dst_node |-> d.edge.src_node,
                          length |-> d.edge.length,
                          network_state |-> child_state(d.edge.network_state),
                          type_count |-> 0]
         IN  [d EXCEPT !.new_edges = Append(@, new_edge)]
    ELSE d

RuleDuplicate(d) ==
    IF contains(d.edge.network_state, EDGE_DUPLICATE)
    THEN LET new_edge == [src_node |-> d.edge.dst_node,
                          dst_node |-> d.edge.src_node,
                          length |-> d.edge.length,
                          network_state |-> child_state(d.edge.network_state),
                          type_count |-> d.edge.type_count]
         IN  [d EXCEPT !.new_edges = Append(@, new_edge)]
    ELSE d

RuleSwap(d) ==
    IF contains(d.edge.network_state, EDGE_SWAP)
    THEN [d EXCEPT !.edge.dst_node = d.edge.src_node,
                   !.edge.src_node = d.edge.dst_node]
    ELSE d

RuleGrow(d) ==
    IF contains(d.edge.network_state, EDGE_GROW)
    THEN [d EXCEPT !.edge.length = Grown(@)]
    ELSE d

(* Mutant: shrink takes RESIZE_FACTOR itself off the length. *)
RuleShrinkAbsolute(d) ==
    IF contains(d.edge.network_state, EDGE_SHRINK)
    THEN [d EXCEPT !.edge.length = Add(@, [num |-> -1, exp |-> 2])]
    ELSE d

RuleShrink(d) ==
    IF contains(d.edge.network_state, EDGE_SHRINK)
    THEN [d EXCEPT !.edge.length = Shrunk(@)]
    ELSE d

RuleType(d) ==
    IF contains(d.edge.network_state, EDGE_TYPE)
    THEN [d EXCEPT !.edge.type_count = @ + 1]
    ELSE d

develop(edge, net, next_id, new_edges) ==
    LET transitioned ==
            [edge EXCEPT !.network_state = transition_state(net, edge.network_state)]
    IN  RuleType(RuleShrink(RuleGrow(RuleSwap(RuleDuplicate(RuleSplit(
            [edge |-> transitioned, next_node_id |-> next_id,
             new_edges |-> new_edges]))))))

(* The body of Edge::develop with its six rule blocks in another order:     *)
(* order is a sequence of the rule bits, InOrder applies the blocks from    *)
(* order[k] on to the record the transition left.                          *)

Rules == EDGE_SPLIT .. EDGE_TYPE

FixedOrder == <<EDGE_SPLIT, EDGE_DUPLICATE, EDGE_SWAP, EDGE_GROW, EDGE_SHRINK, EDGE_TYPE>>

(* Every order of a set of rules. *)
RECURSIVE OrdersOf(_)
OrdersOf(rules) ==
    IF rules = {} THEN {<<>>}
    ELSE UNION {{<<rule>> \o order : order \in OrdersOf(rules \ {rule})} : rule \in rules}

Orders == OrdersOf(Rules)

ApplyRule(rule, d) ==
    CASE rule = EDGE_SPLIT -> RuleSplit(d)
      [] rule = EDGE_DUPLICATE -> RuleDuplicate(d)
      [] rule = EDGE_SWAP -> RuleSwap(d)
      [] rule = EDGE_GROW -> RuleGrow(d)
      [] rule = EDGE_SHRINK -> RuleShrink(d)
      [] rule = EDGE_TYPE -> RuleType(d)

RECURSIVE InOrder(_, _, _)
InOrder(d, order, k) ==
    IF k > Len(order) THEN d
    ELSE InOrder(ApplyRule(order[k], d), order, k + 1)

develop_in_order(edge, net, next_id, new_edges, order) ==
    LET transitioned ==
            [edge EXCEPT !.network_state = transition_state(net, edge.network_state)]
    IN  InOrder([edge |-> transitioned, next_node_id |-> next_id,
                 new_edges |-> new_edges], order, 1)

----------------------------------------------------------------------------
(* GraphBuilder *)

NodeIds(es) == {es[k].src_node : k \in 1 .. Len(es)} \cup
               {es[k].dst_node : k \in 1 .. Len(es)}

GraphBuilderNew(net, zyg) ==
    [edges |-> <<[src_node |-> 0,
                  dst_node |-> 1,
                  length |-> LengthOne,
                  type_count |-> 0,
                  network_state |-> zyg]>>,
     next_node_id |-> 2,
     network |-> net]

(* The loop of GraphBuilder::next over self.edges, from edge k on.  log     *)
(* records the id each split gave its child edge, with the node ids in use  *)
(* just before that edge was developed.                                    *)

(* Mutant: the edges are developed from the last to the first. *)
RECURSIVE DevelopFromReverse(_, _, _, _, _, _)
DevelopFromReverse(net, es, k, next_id, new_edges, log) ==
    IF k > Len(es)
    THEN [edges |-> es, next_node_id |-> next_id, new_edges |-> new_edges, log |-> log]
    ELSE LET at == Len(es) + 1 - k
             d == develop(es[at], net, next_id, new_edges)
         IN  DevelopFromReverse(net, [es EXCEPT ![at] = d.edge], k + 1, d.next_node_id,
                     d.new_edges,
                     IF contains(d.edge.network_state, EDGE_SPLIT)
                     THEN Append(log, [id |-> d.new_edges[Len(new_edges) + 1].src_node,
                                       in_use |-> NodeIds(es) \cup NodeIds(new_edges)])
                     ELSE log)

RECURSIVE DevelopFrom(_, _, _, _, _, _)
DevelopFrom(net, es, k, next_id, new_edges, log) ==
    IF k > Len(es)
    THEN [edges |-> es, next_node_id |-> next_id, new_edges |-> new_edges, log |-> log]
    ELSE LET d == develop(es[k], net, next_id, new_edges) IN
         DevelopFrom(net, [es EXCEPT ![k] = d.edge], k + 1, d.next_node_id,
                     d.new_edges,
                     IF contains(d.edge.network_state, EDGE_SPLIT)
                     THEN Append(log, [id |-> d.new_edges[Len(new_edges) + 1].src_node,
                                       in_use |-> NodeIds(es) \cup NodeIds(new_edges)])
                     ELSE log)

(* The networks development runs on: those construct_network builds from   *)
(* these (genome, promoter, length_of_gene, regulation).                   *)

DevInputs ==
    { <<(<<0, 1, 3, 3, 0, 0, 2, 3, 3, 1, 1, 1, 3, 0, 0, 1, 2, 3, 0, 1, 2, 1, 3, 1, 0,
           2, 2, 3, 1, 1, 1, 0, 3, 0, 3>>), (<<3>>), 2, "enhance">>,
      <<(<<0, 1, 3, 3, 0, 0, 1, 3, 0, 0, 0, 1, 1, 0, 3, 0, 3, 1, 2, 2, 3, 0, 1, 2, 1,
           1, 3, 1, 0, 2, 0, 1, 3, 1, 3, 2, 2, 2, 3, 1, 1>>), (<<3>>), 2, "main">>,
      <<(<<1, 0, 0>>), (<<0>>), 1, "enhance">>,
      <<(<<0, 3, 2, 0, 1>>), (<<0>>), 1, "main">>,
      <<(<<1, 0, 0, 2, 0, 1, 3, 0, 2>>), (<<0>>), 1, "enhance">> }

Zygotes(net) ==
    UNION {BitSets(n) : n \in {m \in (Len(net.nodes) - MaxLenMismatch) ..
                                       (Len(net.nodes) + MaxLenMismatch) : m >= 0}}

DevInit ==
    /\ \E inp \in DevInputs :
          /\ genome = inp[1]
          /\ promoter = inp[2]
          /\ length_of_gene = inp[3]
          /\ regulation = inp[4]
    /\ sequence = iter_genes(genome)
    /\ ret = NotCalled
    /\ genes = <<>>
    /\ calls = 0
    /\ net_result = construct_network(genome, promoter, length_of_gene, regulation)
    /\ net_result.some
    /\ zygote \in Zygotes(net_result.val)
    /\ LET gb == GraphBuilderNew(net_result.val, zygote) IN
         /\ network = gb.network
         /\ edges = gb.edges
         /\ next_node_id = gb.next_node_id
    /\ generation = 0
    /\ allocated = <<>>
    /\ GraphIdle
    /\ BaseIdle

(* One call of GraphBuilder::next: every edge of the list developed, then  *)
(* the new edges appended. *)
GraphBuilderNext ==
    /\ generation < MaxGen
    /\ LET r == DevelopFrom(network, edges, 1, next_node_id, <<>>, allocated) IN
         /\ edges' = r.edges \o r.new_edges
         /\ next_node_id' = r.next_node_id
         /\ allocated' = r.log
    /\ generation' = generation + 1
    /\ UNCHANGED <<scanVars, network, zygote, graphVars, baseVars>>

DevNext == GraphBuilderNext

SpecDev == DevInit /\ [][DevNext]_vars

----------------------------------------------------------------------------
(* Properties of the development. *)

NumNodes == Len(network.nodes)

(* The sum of the weights of node i's incoming edges whose source is active *)
(* in st, as a sum over the set of those edges. *)

RECURSIVE SumOver(_, _)
SumOver(inc, ks) ==
    IF ks = {} THEN 0
    ELSE LET k == CHOOSE x \in ks : TRUE IN inc[k].weight + SumOver(inc, ks \ {k})

ActiveSum(net, i, st) ==
    LET inc == net.nodes[i + 1].incoming_edges IN
    SumOver(inc, {k \in DOMAIN inc : inc[k].src < st.len /\ inc[k].src \in st.bits})

(* C1: in every call of GraphBuilder::next, the state of every edge that   *)
(* was in the list becomes the one whose bit i is set iff the weights of    *)
(* node i's incoming edges with an active source in the edge's OLD state    *)
(* sum to more than 0. *)
C1_Transition ==
    [][generation' = generation + 1 =>
         \A k \in 1 .. Len(edges) :
            \A i \in 0 .. (NumNodes - 1) :
               (i \in edges'[k].network_state.bits)
                   <=> (ActiveSum(network, i, edges[k].network_state) > 0)]_vars

(* A first generation in which one node had active incoming edges summing  *)
(* to 0, one a negative sum, one a positive sum, and a node was activated   *)
(* by a source that the same step switched off. *)
C1_Witness ==
    /\ generation = 1
    /\ \E i \in 0 .. (NumNodes - 1) :
          /\ ActiveSum(network, i, zygote) = 0
          /\ \E e \in DOMAIN network.nodes[i + 1].incoming_edges :
                network.nodes[i + 1].incoming_edges[e].src \in zygote.bits
          /\ i \notin edges[1].network_state.bits
    /\ \E i \in 0 .. (NumNodes - 1) :
          ActiveSum(network, i, zygote) < 0 /\ i \notin edges[1].network_state.bits
    /\ \E i \in 0 .. (NumNodes - 1), j \in 0 .. (NumNodes - 1) :
          /\ j < i
          /\ j \in zygote.bits
          /\ j \notin edges[1].network_state.bits
          /\ \E e \in DOMAIN network.nodes[i + 1].incoming_edges :
                network.nodes[i + 1].incoming_edges[e].src = j
          /\ ActiveSum(network, i, zygote) > 0
          /\ i \in edges[1].network_state.bits

(* C2: next_node_id starts at 2 and never decreases, and the id a split    *)
(* allocates differs from every src_node and dst_node in use at that moment *)
(* (in the edge list or in the edges created earlier in the generation)    *)
(* and from every id allocated before. *)
C2_FreshIds ==
    /\ [](generation = 0 => next_node_id = 2)
    /\ [](\A i \in DOMAIN allocated :
            /\ allocated[i].id \notin allocated[i].in_use
            /\ \A j \in 1 .. (i - 1) : allocated[j].id # allocated[i].id)
    /\ [](NodeIds(edges) \subseteq 0 .. (next_node_id - 1))
    /\ [][next_node_id' >= next_node_id]_vars

(* Splits in two generations, and two splits within one generation. *)
C2_Witness ==
    /\ generation >= 2
    /\ Len(allocated) >= 3
    /\ \E i \in DOMAIN allocated : Cardinality(allocated[i].in_use) >= 4
    /\ next_node_id >= 5

(* C3: the state of every edge has as many bits as the network has nodes. *)
C3_StateLength ==
    \A k \in 1 .. Len(edges) : edges[k].network_state.len = NumNodes

(* C4 as claimed: a zygote with only the split bit active gives, after one *)
(* generation, the two halves 0 -> 2 and 2 -> 1 of the zygote edge. *)
C4_SplitResult ==
    /\ Len(edges) = 2
    /\ edges[1].src_node = 0
    /\ edges[1].dst_node = 2
    /\ edges[2].src_node = 2
    /\ edges[2].dst_node = 1
    /\ edges[1].length = Half(LengthOne)
    /\ edges[2].length = Half(LengthOne)
    /\ next_node_id = 3

C15_MismatchAborts ==
    [][(\E k \in 1 .. Len(edges) : edges[k].network_state.len # NumNodes)
          => (generation' = generation /\ edges' = edges)]_vars

(* A step of GraphBuilder::next. *)
Advanced == generation' = generation + 1

(* 1 if the rule is active in the state of the developed edge e, else 0. *)
Fired(e, rule) == IF contains(e.network_state, rule) THEN 1 ELSE 0

(* The number of children of the edges before position k, given the list   *)
(* of the developed edges. *)
RECURSIVE ChildrenBefore(_, _)
ChildrenBefore(developed, k) ==
    IF k <= 1 THEN 0
    ELSE ChildrenBefore(developed, k - 1)
            + Fired(developed[k - 1], EDGE_SPLIT)
            + Fired(developed[k - 1], EDGE_DUPLICATE)

(* The positions, in the list after the step, of the split child and of    *)
(* the duplicate child of the edge at position k of the list old. *)
SplitChildAt(old, developed, k) == Len(old) + ChildrenBefore(developed, k) + 1

DuplicateChildAt(old, developed, k) ==
    SplitChildAt(old, developed, k) + Fired(developed[k], EDGE_SPLIT)

(* State c is state p with bit 0, and no other bit, inverted. *)
OnlyFlagInverted(c, p) ==
    /\ c.len = p.len
    /\ (c.bits \ p.bits) \cup (p.bits \ c.bits) = {EDGE_DIFFERENTIATION}

(* Length l after the grow and shrink rules active in the developed edge e. *)
Resized(e, l) ==
    LET g == IF contains(e.network_state, EDGE_GROW) THEN Grown(l) ELSE l IN
    IF contains(e.network_state, EDGE_SHRINK) THEN Shrunk(g) ELSE g

(* The number of splits of a step, given the list before it and after it. *)
RECURSIVE SplitsUpTo(_, _)
SplitsUpTo(developed, k) ==
    IF k = 0 THEN 0
    ELSE SplitsUpTo(developed, k - 1) + Fired(developed[k], EDGE_SPLIT)

(* C17: in every step, for every edge of the list whose transitioned state *)
(* has bit 1 (split) active: one child edge is emitted, from an id n that   *)
(* no edge used before the step and no other split of the step got, to the  *)
(* parent's dst_node before the step, with half the parent's length before  *)
(* the step and the parent's transitioned state with only bit 0 inverted;   *)
(* the parent's dst_node becomes n, its src_node stays (the swap rule of    *)
(* the same step then exchanges the two), its length is halved (and then    *)
(* resized by grow and shrink); next_node_id grows by one per split. *)
C17_Split ==
    [][Advanced =>
         /\ next_node_id' = next_node_id + SplitsUpTo(edges', Len(edges))
         /\ \A k \in 1 .. Len(edges) :
              contains(edges'[k].network_state, EDGE_SPLIT) =>
                 /\ SplitChildAt(edges, edges', k) <= Len(edges')
                 /\ LET child == edges'[SplitChildAt(edges, edges', k)]
                        n == child.src_node
                    IN  /\ n \notin NodeIds(edges)
                        /\ n \in next_node_id .. (next_node_id' - 1)
                        /\ \A j \in 1 .. Len(edges) :
                              (j # k /\ contains(edges'[j].network_state, EDGE_SPLIT))
                              => edges'[SplitChildAt(edges, edges', j)].src_node # n
                        /\ child.dst_node = edges[k].dst_node
                        /\ child.length = Half(edges[k].length)
                        /\ OnlyFlagInverted(child.network_state, edges'[k].network_state)
                        /\ IF contains(edges'[k].network_state, EDGE_SWAP)
                           THEN /\ edges'[k].src_node = n
                                /\ edges'[k].dst_node = edges[k].src_node
                           ELSE /\ edges'[k].dst_node = n
                                /\ edges'[k].src_node = edges[k].src_node
                        /\ edges'[k].length = Resized(edges'[k], Half(edges[k].length))]_vars

(* A first generation in which the zygote edge 0 -> 1 was split, swapped   *)
(* and grown: it is 2 -> 0 of length 5/8, its child 2 -> 1 of length 1/2. *)
C17_Witness ==
    /\ generation = 1
    /\ zygote.len = NumNodes
    /\ {EDGE_SPLIT, EDGE_SWAP, EDGE_GROW} \subseteq edges[1].network_state.bits
    /\ EDGE_SHRINK \notin edges[1].network_state.bits
    /\ Len(edges) >= 2
    /\ edges[1].src_node = 2
    /\ edges[1].dst_node = 0
    /\ edges[1].length = [num |-> 5, exp |-> 3]
    /\ edges[2].src_node = 2
    /\ edges[2].dst_node = 1
    /\ edges[2].length = [num |-> 1, exp |-> 1]
    /\ next_node_id = 3

(* C18: in every step, for every edge of the list whose transitioned state *)
(* has bit 2 (duplicate) active: one child edge is emitted, from the        *)
(* dst_node to the src_node the parent has when the rule acts (the split    *)
(* of the same step has acted, the swap has not), with the length the       *)
(* parent has then and the parent's transitioned state with only bit 0      *)
(* inverted; the parent's src_node, dst_node, length, type_count and state   *)
(* are what the other rules alone make them, and next_node_id grows only    *)
(* by the splits. *)
C18_Duplicate ==
    [][Advanced =>
         /\ next_node_id' = next_node_id + SplitsUpTo(edges', Len(edges))
         /\ \A k \in 1 .. Len(edges) :
              contains(edges'[k].network_state, EDGE_DUPLICATE) =>
                 /\ DuplicateChildAt(edges, edges', k) <= Len(edges')
                 /\ LET child == edges'[DuplicateChildAt(edges, edges', k)]
                        split == contains(edges'[k].network_state, EDGE_SPLIT)
                        swap == contains(edges'[k].network_state, EDGE_SWAP)
                        src_then == edges[k].src_node
                        dst_then == IF split
                                    THEN edges'[SplitChildAt(edges, edges', k)].src_node
                                    ELSE edges[k].dst_node
                        length_then == IF split THEN Half(edges[k].length)
                                       ELSE edges[k].length
                    IN  /\ child.src_node = dst_then
                        /\ child.dst_node = src_then
                        /\ child.length = length_then
                        /\ OnlyFlagInverted(child.network_state, edges'[k].network_state)
                        /\ edges'[k].src_node = (IF swap THEN dst_then ELSE src_then)
                        /\ edges'[k].dst_node = (IF swap THEN src_then ELSE dst_then)
                        /\ edges'[k].length = Resized(edges'[k], length_then)
                        /\ edges'[k].type_count =
                              edges[k].type_count + Fired(edges'[k], EDGE_TYPE)
                        /\ edges'[k].network_state =
                              transition_state(network, edges[k].network_state)]_vars

(* A first generation in which the zygote edge 0 -> 1 was split and        *)
(* duplicated and not swapped: it is 0 -> 2, the duplicate 2 -> 0 of        *)
(* length 1/2, behind the split child. *)
C18_Witness ==
    /\ generation = 1
    /\ zygote.len = NumNodes
    /\ {EDGE_SPLIT, EDGE_DUPLICATE} \subseteq edges[1].network_state.bits
    /\ EDGE_SWAP \notin edges[1].network_state.bits
    /\ Len(edges) = 3
    /\ edges[1].src_node = 0
    /\ edges[1].dst_node = 2
    /\ edges[3].src_node = 2
    /\ edges[3].dst_node = 0
    /\ edges[3].length = [num |-> 1, exp |-> 1]
    /\ next_node_id = 3

(* C19: in every step, the child of a split and the child of a duplicate   *)
(* have the type_count the parent had before the step, which is the one it  *)
(* has when the child is created: the type rule acts after both. *)
C19_InheritTypeCount ==
    [][Advanced =>
         \A k \in 1 .. Len(edges) :
            /\ contains(edges'[k].network_state, EDGE_SPLIT) =>
                 /\ SplitChildAt(edges, edges', k) <= Len(edges')
                 /\ edges'[SplitChildAt(edges, edges', k)].type_count
                       = edges[k].type_count
            /\ contains(edges'[k].network_state, EDGE_DUPLICATE) =>
                 /\ DuplicateChildAt(edges, edges', k) <= Len(edges')
                 /\ edges'[DuplicateChildAt(edges, edges', k)].type_count
                       = edges[k].type_count]_vars

(* After two generations the list has more edges than one generation can   *)
(* give, so the last edge is a child of the second generation, and it has a *)
(* type_count above 0 although it has not been developed. *)
C19_Witness ==
    /\ generation = 2
    /\ Len(edges) >= 4
    /\ edges[Len(edges)].type_count >= 1
    /\ edges[1].type_count = 2

(* C20: in every step the list grows by one edge per split and one per     *)
(* duplicate active in the transitioned states of the edges it had; each of *)
(* these edges stays at its position with its state transitioned once; the  *)
(* children follow them in the order of their parents, split child before   *)
(* duplicate child, the ids of the splits ascending in that order; and each *)
(* child is as its rule made it: state not transitioned, length, type_count *)
(* and direction not rewritten by the rules active in its state. *)
C20_Advance ==
    [][Advanced =>
         /\ Len(edges') = Len(edges) + ChildrenBefore(edges', Len(edges) + 1)
         /\ \A k \in 1 .. Len(edges) :
              /\ edges'[k].network_state
                    = transition_state(network, edges[k].network_state)
              /\ edges'[k].type_count - edges[k].type_count \in {0, 1}
              /\ contains(edges'[k].network_state, EDGE_SPLIT) =>
                   LET at == SplitChildAt(edges, edges', k) IN
                   /\ at \in (Len(edges) + 1) .. Len(edges')
                   /\ edges'[at].network_state = child_state(edges'[k].network_state)
                   /\ edges'[at].dst_node = edges[k].dst_node
                   /\ edges'[at].length = Half(edges[k].length)
                   /\ edges'[at].type_count = edges[k].type_count
                   /\ \A j \in 1 .. (k - 1) :
                         contains(edges'[j].network_state, EDGE_SPLIT) =>
                            edges'[SplitChildAt(edges, edges', j)].src_node
                               < edges'[at].src_node
              /\ contains(edges'[k].network_state, EDGE_DUPLICATE) =>
                   LET at == DuplicateChildAt(edges, edges', k) IN
                   /\ at \in (Len(edges) + 1) .. Len(edges')
                   /\ edges'[at].network_state = child_state(edges'[k].network_state)
                   /\ edges'[at].dst_node = edges[k].src_node
                   /\ edges'[at].type_count = edges[k].type_count]_vars

(* A second generation in which two edges had children, in a state whose   *)
(* grow and type bits the children carry. *)
C20_Witness ==
    /\ generation = 2
    /\ Len(edges) >= 6
    /\ Len(allocated) >= 3
    /\ {EDGE_GROW, EDGE_TYPE} \subseteq edges[Len(edges)].network_state.bits

(* The place of a rule in an order. *)
PlaceOf(order, rule) == CHOOSE i \in 1 .. Len(order) : order[i] = rule

Before(order, first, second) == PlaceOf(order, first) < PlaceOf(order, second)

(* The orders that keep split and duplicate before swap, and those that    *)
(* keep split before duplicate and both before the other four rules.       *)
SwapAfterOrders ==
    {order \in Orders : /\ Before(order, EDGE_SPLIT, EDGE_SWAP)
                        /\ Before(order, EDGE_DUPLICATE, EDGE_SWAP)}

SplitDuplicateFirstOrders ==
    {<<EDGE_SPLIT, EDGE_DUPLICATE>> \o order :
        order \in OrdersOf(Rules \ {EDGE_SPLIT, EDGE_DUPLICATE})}

(* Developing edge k of the builder with the rules in every order of the   *)
(* set gives what Edge::develop gives: the same parent edge, the same next *)
(* node id and the same child edges.                                       *)
SameAsFixedOrder(k, orders) ==
    \A fixed \in {develop(edges[k], network, next_node_id, <<>>)} :
       \A transitioned \in {[edge |-> [edges[k] EXCEPT !.network_state =
                                          transition_state(network, @)],
                              next_node_id |-> next_node_id,
                              new_edges |-> <<>>]} :
          \A order \in orders : InOrder(transitioned, order, 1) = fixed

ZygoteEdge(st) ==
    [src_node |-> 0, dst_node |-> 1, length |-> LengthOne, type_count |-> 0,
     network_state |-> st]

(* C24: with a network of N < 7 nodes every call of GraphBuilder::next      *)
(* completes without a failed bit set operation, and no rule whose bit is   *)
(* N or more fires in it: that bit is not set in the state of any developed *)
(* edge, and the rule has no effect (without split no node id is allocated, *)
(* without split and duplicate no edge is added, without duplicate one edge *)
(* is added for each allocated id, without swap every edge keeps its        *)
(* src_node, without grow and shrink a length stays or is halved, without   *)
(* shrink it is at most grown as well, without type every type_count        *)
(* stays).  With a single gene the edge list is, after any number of calls, *)
(* the single zygote edge 0 -> 1 of length 1.0 and type_count 0.            *)
C24_MissingBitsInactive ==
    /\ [](NumNodes = 1 =>
             /\ Len(edges) = 1
             /\ edges[1] = ZygoteEdge(edges[1].network_state)
             /\ next_node_id = 2)
    /\ [][Advanced =>
             /\ \A k \in 1 .. Len(edges') : ~HasFailed(edges'[k].network_state)
             /\ \A k \in 1 .. Len(edges) :
                   /\ \A rule \in Rules :
                         rule >= NumNodes => ~contains(edges'[k].network_state, rule)
                   /\ EDGE_SWAP >= NumNodes =>
                         edges'[k].src_node = edges[k].src_node
                   /\ EDGE_GROW >= NumNodes =>
                         edges'[k].length \in {edges[k].length, Half(edges[k].length)}
                   /\ EDGE_SHRINK >= NumNodes =>
                         edges'[k].length \in {edges[k].length, Half(edges[k].length),
                                               Grown(edges[k].length),
                                               Grown(Half(edges[k].length))}
                   /\ EDGE_TYPE >= NumNodes =>
                         edges'[k].type_count = edges[k].type_count
             /\ EDGE_SPLIT >= NumNodes =>
                   next_node_id' = next_node_id /\ Len(edges') = Len(edges)
             /\ EDGE_DUPLICATE >= NumNodes =>
                   Len(edges') - Len(edges) = next_node_id' - next_node_id
             /\ NumNodes = 1 =>
                   edges' = <<ZygoteEdge(transition_state(network,
                                                         edges[1].network_state))>>]_vars

(* Three generations of a network of three nodes from a zygote of three    *)
(* bits: split and duplicate have fired, swap, grow, shrink and type have   *)
(* no bit. *)
C24_Witness ==
    /\ NumNodes = 3
    /\ zygote.len = 3
    /\ generation >= 3
    /\ Len(edges) >= 4
    /\ \E k \in 1 .. Len(edges) :
          {EDGE_SPLIT, EDGE_DUPLICATE} \subseteq edges[k].network_state.bits

(* Three generations of the network of a single gene whose only bit is     *)
(* active. *)
C24_SingleGene ==
    /\ NumNodes = 1
    /\ generation >= 3
    /\ edges = <<ZygoteEdge([len |-> 1, bits |-> {0}])>>

----------------------------------------------------------------------------
(* Properties of the scanner. *)

(* The 0-based positions at which pattern p occurs in s. *)
MatchesAt(s, p) == {i \in 0 .. (Len(s) - Len(p)) : SubSeq(s, i + 1, i + Len(p)) = p}

Least(S) == CHOOSE x \in S : \A y \in S : x <= y

End(sl) == sl.off + sl.len

(* The cursor (offset of the remainder) before the call that returned gene k. *)
CursorBefore(k) == IF k = 1 THEN 0 ELSE End(genes[k - 1].gene)

(* The cursor after the call that returned gene k. *)
CursorAfter(k) == IF k = Len(genes) THEN sequence.off ELSE CursorBefore(k + 1)

(* The genome symbols gene k took: regulatory region, promoter, coding region. *)
GeneSpan(k) == genes[k].regulatory_region.off .. (End(genes[k].gene) - 1)

(* C5: the cursor strictly increases with each returned gene, the regions  *)
(* and the promoter occurrence of each gene lie between the cursor before   *)
(* and the cursor after its call, and no genome symbol is in two genes. *)
C5_NoOverlap ==
    /\ End(sequence) = Len(genome)
    /\ genes = <<>> => sequence.off = 0
    /\ \A k \in 1 .. Len(genes) :
          /\ CursorBefore(k) < CursorAfter(k)
          /\ CursorBefore(k) <= genes[k].regulatory_region.off
          /\ genes[k].regulatory_region.len >= 0
          /\ End(genes[k].regulatory_region) + Len(promoter) = genes[k].gene.off
          /\ genes[k].gene.len >= 0
          /\ End(genes[k].gene) <= CursorAfter(k)
          /\ CursorAfter(k) <= Len(genome)
          /\ \A j \in 1 .. (k - 1) : GeneSpan(j) \cap GeneSpan(k) = {}

(* Two genes returned, the second with a regulatory region, and a promoter *)
(* symbol inside a consumed coding region. *)
C5_Witness ==
    /\ Len(genes) >= 2
    /\ genes[2].regulatory_region.len >= 1
    /\ genes[1].gene.len >= 1
    /\ Content(genome, genes[1].gene) = promoter

(* C6: each returned gene is the one at the leftmost promoter match in the *)
(* remainder: the regulatory region is the remainder before the match, the  *)
(* coding region the length_of_gene symbols after the promoter, the new     *)
(* remainder what follows; 0101 1111 with promoter 0101 and length 4 gives  *)
(* one gene, with empty regulatory region and coding region 1111. *)
C6_LeftmostGene ==
    /\ \A k \in 1 .. Len(genes) :
          LET rem == SubSeq(genome, CursorBefore(k) + 1, Len(genome))
              pos == genes[k].regulatory_region.len
              plen == Len(promoter)
          IN  /\ MatchesAt(rem, promoter) # {}
              /\ pos = Least(MatchesAt(rem, promoter))
              /\ genes[k].regulatory_region.off = CursorBefore(k)
              /\ Content(genome, genes[k].regulatory_region) = SubSeq(rem, 1, pos)
              /\ genes[k].gene.len = length_of_gene
              /\ Content(genome, genes[k].gene)
                    = SubSeq(rem, pos + plen + 1, pos + plen + length_of_gene)
              /\ Len(Content(genome, genes[k].gene)) = length_of_gene
              /\ CursorAfter(k) = CursorBefore(k) + pos + plen + length_of_gene
    /\ ret.some => (genes # <<>> /\ ret.val = genes[Len(genes)])
    /\ (/\ genome = <<0, 1, 0, 1, 1, 1, 1, 1>>
        /\ promoter = <<0, 1, 0, 1>>
        /\ length_of_gene = 4
        /\ calls >= 1)
       => /\ Len(genes) = 1
          /\ Content(genome, genes[1].regulatory_region) = <<>>
          /\ Content(genome, genes[1].gene) = <<1, 1, 1, 1>>
          /\ calls >= 2 => ret = None

(* A gene found behind a non-empty regulatory region although the promoter *)
(* occurs again later in the remainder. *)
C6_Witness ==
    /\ Len(genes) >= 1
    /\ genes[1].regulatory_region.len >= 1
    /\ Cardinality(MatchesAt(genome, promoter)) >= 2
    /\ length_of_gene >= 1

C6_ScenarioWitness ==
    /\ genome = <<0, 1, 0, 1, 1, 1, 1, 1>>
    /\ promoter = <<0, 1, 0, 1>>
    /\ length_of_gene = 4
    /\ calls = 2

(* The leftmost promoter match in the remainder has fewer than             *)
(* length_of_gene symbols after it. *)
IncompleteGene ==
    /\ Len(promoter) > 0
    /\ LET rem == Content(genome, sequence) IN
         /\ MatchesAt(rem, promoter) # {}
         /\ Least(MatchesAt(rem, promoter)) + Len(promoter) + length_of_gene > Len(rem)

(* C7: a call that finds the promoter with fewer than length_of_gene        *)
(* symbols after it returns None without failing and consumes nothing, so   *)
(* does every later call, and no returned gene is shorter than              *)
(* length_of_gene or reaches past the end of the genome. *)
C7_IncompleteEnds ==
    /\ [][(calls' = calls + 1 /\ IncompleteGene)
             => (ret' = None /\ sequence' = sequence /\ genes' = genes)]_vars
    /\ [][(calls' = calls + 1 /\ ret = None)
             => (ret' = None /\ sequence' = sequence /\ genes' = genes)]_vars
    /\ [](\A k \in 1 .. Len(genes) :
            /\ genes[k].gene.len = length_of_gene
            /\ Len(Content(genome, genes[k].gene)) = length_of_gene
            /\ End(genes[k].gene) <= Len(genome))
    /\ [](Len(promoter) > 0 => ~IsPanic(ret))

(* After a returned gene, two calls that met an incomplete gene. *)
C7_Witness ==
    /\ Len(genes) >= 1
    /\ calls >= Len(genes) + 2
    /\ ret = None
    /\ IncompleteGene
    /\ Len(genome) > Least(MatchesAt(Content(genome, sequence), promoter))
                      + sequence.off + Len(promoter)

----------------------------------------------------------------------------
(* Properties of the network construction. *)

(* The genes the scan of the genome extracts. *)
Extracted == CollectGenes(genome, iter_genes(genome), promoter, length_of_gene, <<>>)

(* How often the product of gene src occurs in the regulatory region of     *)
(* gene dst, overlapping occurrences included. *)
Occurrences(src, dst) ==
    Cardinality(MatchesAt(Content(genome, Extracted[dst + 1].regulatory_region),
                          product(genome, Extracted[src + 1])))

(* The positions of the edges from src in the incoming edges of node dst. *)
EdgesFromTo(net, src, dst) ==
    {k \in DOMAIN net.nodes[dst + 1].incoming_edges :
        net.nodes[dst + 1].incoming_edges[k].src = src}

NumEdges(net) ==
    Cardinality({<<d, k>> \in (1 .. Len(net.nodes)) \X (1 .. (Len(net.nodes) * Len(net.nodes))) :
                    k \in DOMAIN net.nodes[d].incoming_edges})

(* C8: the network built has, for every ordered pair (src, dst) of genes,  *)
(* src = dst included, an edge src -> dst iff the product of src occurs in  *)
(* the regulatory region of dst, then exactly one, of weight the sign of    *)
(* the product times the number of occurrences; no edge has weight 0. *)
C8_EdgeWeights ==
    net_result.some =>
        LET net == net_result.val
            n == Len(Extracted)
        IN  /\ Len(net.nodes) = n
            /\ \A src \in 0 .. (n - 1), dst \in 0 .. (n - 1) :
                  LET from == EdgesFromTo(net, src, dst)
                      inc == net.nodes[dst + 1].incoming_edges
                  IN  /\ (from # {}) <=> (Occurrences(src, dst) >= 1)
                      /\ Cardinality(from) <= 1
                      /\ \A k \in from :
                            /\ inc[k].weight =
                                  protein_regulation(regulation,
                                                     product(genome, Extracted[src + 1]))
                                  * Occurrences(src, dst)
                            /\ inc[k].weight # 0
            /\ \A dst \in 0 .. (n - 1) :
                  \A k \in DOMAIN net.nodes[dst + 1].incoming_edges :
                     net.nodes[dst + 1].incoming_edges[k].src \in 0 .. (n - 1)

(* A network with a self edge of weight 2 (two overlapping occurrences), an *)
(* inhibiting edge between two genes and a pair without an edge. *)
C8_Witness ==
    /\ net_result.some
    /\ Len(net_result.val.nodes) >= 2
    /\ \E k \in EdgesFromTo(net_result.val, 0, 0) :
          net_result.val.nodes[1].incoming_edges[k].weight = 2
    /\ \E k \in EdgesFromTo(net_result.val, 1, 0) :
          net_result.val.nodes[1].incoming_edges[k].weight = -1
    /\ EdgesFromTo(net_result.val, 1, 1) = {}

(* construct_network returned None exactly if no gene is extracted, and a  *)
(* network with one node per gene otherwise. *)
NoneIffNoGenes ==
    /\ (net_result = None) <=> (Len(Extracted) = 0)
    /\ Len(Extracted) >= 1 =>
          (net_result.some /\ Len(net_result.val.nodes) = Len(Extracted))

(* C9 as claimed: whatever the gene length, construct_network returns None *)
(* exactly when the scan extracts no gene and a network with one node per   *)
(* gene when it extracts at least one. *)
C9_Original ==
    (IsCalled(net_result) /\ Len(promoter) > 0) => NoneIffNoGenes

(* C9 amended: the same for length_of_gene >= 1; with length_of_gene 0 and *)
(* a promoter match the empty product fails the assert of count_substr. *)
C9_NoneIffNoGenes ==
    (IsCalled(net_result) /\ Len(promoter) > 0 /\ length_of_gene >= 1)
    => NoneIffNoGenes

(* A network of two nodes and no edge, built from a genome that ends in an *)
(* incomplete gene. *)
C9_Witness ==
    /\ net_result.some
    /\ length_of_gene >= 1
    /\ Len(Extracted) = 2
    /\ Len(net_result.val.nodes) = 2
    /\ NumEdges(net_result.val) = 0
    /\ Cardinality(MatchesAt(genome, promoter)) > 2

(* No promoter match, and construct_network returned None. *)
C9_NoneWitness ==
    /\ net_result = None
    /\ Len(promoter) > 0
    /\ length_of_gene >= 1
    /\ Len(genome) >= 1
    /\ Len(Extracted) = 0

(* C10 as claimed: no product in the regulatory region of ANOTHER gene     *)
(* gives a network without edges. *)
C10_Original ==
    (/\ net_result.some
     /\ \A src \in 0 .. (Len(Extracted) - 1), dst \in 0 .. (Len(Extracted) - 1) :
           src # dst => Occurrences(src, dst) = 0)
    => NumEdges(net_result.val) = 0

(* C10 amended: no product in the regulatory region of any gene, its own   *)
(* included, gives a network without edges. *)
C10_NoMatchNoEdges ==
    (/\ net_result.some
     /\ \A src \in 0 .. (Len(Extracted) - 1), dst \in 0 .. (Len(Extracted) - 1) :
           Occurrences(src, dst) = 0)
    => NumEdges(net_result.val) = 0

(* Two genes with non-empty regulatory regions and no product in them. *)
C10_Witness ==
    /\ net_result.some
    /\ Len(Extracted) >= 2
    /\ \E k \in 1 .. Len(Extracted) : Extracted[k].regulatory_region.len >= 1
    /\ \A src \in 0 .. (Len(Extracted) - 1), dst \in 0 .. (Len(Extracted) - 1) :
          Occurrences(src, dst) = 0
    /\ NumEdges(net_result.val) = 0

----------------------------------------------------------------------------
(* The empty promoter. *)

(* C14 as claimed: with an empty promoter, the scan is rejected as soon as  *)
(* it is asked for: iter_genes has failed, and so has construct_network. *)
C14_Original ==
    Len(promoter) = 0 => Aborted

(* C14 amended: with an empty promoter, the first call of next() on the    *)
(* iterator iter_genes returned fails the assert, and so does               *)
(* construct_network; no gene is returned and no network built, whatever    *)
(* the genome; iter_genes itself only makes the iterator. *)
C14_EmptyPromoter ==
    Len(promoter) = 0 =>
        /\ genes = <<>>
        /\ ~ret.some
        /\ calls >= 1 => (IsPanic(ret) /\ calls = 1)
        /\ calls = 0 => (ret = NotCalled /\ sequence = iter_genes(genome))
        /\ IsCalled(net_result) => IsPanic(net_result)

(* The first next() on the scan of the empty genome for the empty promoter  *)
(* has failed. *)
C14_Witness ==
    /\ promoter = <<>>
    /\ genome = <<>>
    /\ calls = 1
    /\ IsPanic(ret)

----------------------------------------------------------------------------
(* Base strings under succ: what Gene::product does to a coding region,    *)
(* applied again to its result. *)

RECURSIVE StringsOfLen(_, _)
StringsOfLen(S, n) ==
    IF n = 0 THEN {<<>>}
    ELSE {Append(s, b) : s \in StringsOfLen(S, n - 1), b \in S}

BaseInit ==
    /\ alphabet \in Alphabets
    /\ origin \in UNION {StringsOfLen(Symbols(alphabet), n) : n \in 0 .. MaxStringLen}
    /\ image = origin
    /\ applications = 0
    /\ ScanIdle
    /\ DevIdle
    /\ GraphIdle

(* succ applied to every base of the string. *)
ApplySucc ==
    /\ applications < MaxApplications
    /\ image' = [i \in 1 .. Len(image) |-> succ(alphabet, image[i])]
    /\ applications' = applications + 1
    /\ UNCHANGED <<alphabet, origin, scanVars, devVars, graphVars>>

BaseNext == ApplySucc

SpecBase == BaseInit /\ [][BaseNext]_vars

(* C16: for Base4 and for DNABase, succ maps every symbol to a symbol, no   *)
(* two symbols to the same one, and every symbol is a successor; after a    *)
(* multiple of 4 applications every base of a string is what it was, after   *)
(* any other number none is; the successor of the last symbol (C, 3) is the  *)
(* first (A, 0). *)
C16_SuccCycle ==
    /\ \A x \in Symbols(alphabet) : succ(alphabet, x) \in Symbols(alphabet)
    /\ \A x \in Symbols(alphabet), y \in Symbols(alphabet) :
          succ(alphabet, x) = succ(alphabet, y) => x = y
    /\ {succ(alphabet, x) : x \in Symbols(alphabet)} = Symbols(alphabet)
    /\ Len(image) = Len(origin)
    /\ applications % 4 = 0 => image = origin
    /\ applications % 4 # 0 => \A i \in 1 .. Len(origin) : image[i] # origin[i]
    /\ alphabet = "DNABase" => succ(alphabet, "C") = "A"
    /\ alphabet = "Base4" => succ(alphabet, 3) = 0

(* A DNABase string with the last symbol C in it, back after 4 applications. *)
C16_Witness ==
    /\ alphabet = "DNABase"
    /\ applications = 4
    /\ Len(origin) = 2
    /\ origin[1] = "C"
    /\ origin[2] = "A"
    /\ image = origin

----------------------------------------------------------------------------
(* GraphBuilder::into_node_graph *)

(* The first loop: selected_edges maps (src_node, dst_node) to the index of *)
(* the edge kept for the pair, from edge i on. *)

(* Mutant: on equal type_count the later edge replaces the earlier. *)
RECURSIVE SelectFromLastOnTie(_, _, _)
SelectFromLastOnTie(es, i, selected_edges) ==
    IF i >= Len(es) THEN selected_edges
    ELSE LET edge == es[i + 1]
             key == <<edge.src_node, edge.dst_node>>
             inserted == IF key \in DOMAIN selected_edges THEN selected_edges
                         ELSE selected_edges @@ (key :> i)
             old == es[inserted[key] + 1]
         IN  SelectFromLastOnTie(es, i + 1,
                        IF edge.type_count >= old.type_count
                        THEN [inserted EXCEPT ![key] = i]
                        ELSE inserted)

RECURSIVE SelectFrom(_, _, _)
SelectFrom(es, i, selected_edges) ==
    IF i >= Len(es) THEN selected_edges
    ELSE LET edge == es[i + 1]
             key == <<edge.src_node, edge.dst_node>>
             inserted == IF key \in DOMAIN selected_edges THEN selected_edges
                         ELSE selected_edges @@ (key :> i)
             old == es[inserted[key] + 1]
         IN  SelectFrom(es, i + 1,
                        IF edge.type_count > old.type_count
                        THEN [inserted EXCEPT ![key] = i]
                        ELSE inserted)

(* The order of (usize, usize) keys in a BTreeMap, and the keys in that order. *)
KeyLess(a, b) == a[1] < b[1] \/ (a[1] = b[1] /\ a[2] < b[2])

RECURSIVE SortedKeys(_)
SortedKeys(S) ==
    IF S = {} THEN <<>>
    ELSE LET least == CHOOSE x \in S : \A y \in S \ {x} : KeyLess(x, y)
         IN  <<least>> \o SortedKeys(S \ {least})

(* The vector e: the selected edges in the order of their keys. *)
selected(es) ==
    LET selected_edges == SelectFrom(es, 0, [key \in {} |-> 0])
        keys == SortedKeys(DOMAIN selected_edges)
    IN  [k \in 1 .. Len(keys) |-> es[selected_edges[keys[k]] + 1]]

(* The second loop: node_out_edges maps a node to the indices in e of the  *)
(* edges that leave it, from edge i on. *)
RECURSIVE NodeOutEdgesFrom(_, _, _)
NodeOutEdgesFrom(e, i, node_out_edges) ==
    IF i >= Len(e) THEN node_out_edges
    ELSE LET src == e[i + 1].src_node
             entry == IF src \in DOMAIN node_out_edges THEN node_out_edges
                      ELSE node_out_edges @@ (src :> <<>>)
         IN  NodeOutEdgesFrom(e, i + 1, [entry EXCEPT ![src] = Append(@, i)])

(* The third loop: the pairs (i, out_i), from edge i on. *)

(* Mutant: i is connected with the edges that leave its src_node. *)
RECURSIVE ConnectFromSrc(_, _, _, _)
ConnectFromSrc(e, i, node_out_edges, pairs) ==
    IF i >= Len(e) THEN pairs
    ELSE LET node == e[i + 1].src_node IN
         ConnectFromSrc(e, i + 1, node_out_edges,
                     IF node \in DOMAIN node_out_edges
                     THEN pairs \cup {<<i, node_out_edges[node][k]>> :
                                         k \in 1 .. Len(node_out_edges[node])}
                     ELSE pairs)

RECURSIVE ConnectFrom(_, _, _, _)
ConnectFrom(e, i, node_out_edges, pairs) ==
    IF i >= Len(e) THEN pairs
    ELSE LET node == e[i + 1].dst_node IN
         ConnectFrom(e, i + 1, node_out_edges,
                     IF node \in DOMAIN node_out_edges
                     THEN pairs \cup {<<i, node_out_edges[node][k]>> :
                                         k \in 1 .. Len(node_out_edges[node])}
                     ELSE pairs)

(* nodes[i + 1] is node i of the NodeGraph. *)
into_node_graph(es) ==
    LET e == selected(es)
        node_out_edges == NodeOutEdgesFrom(e, 0, [node \in {} |-> <<>>])
    IN  [nodes |-> [k \in 1 .. Len(e) |-> [length |-> e[k].length,
                                            type_count |-> e[k].type_count]],
         edges |-> ConnectFrom(e, 0, node_out_edges, {})]

----------------------------------------------------------------------------
(* NodeGraph::into_structured_graph *)

(* The elements of a BTreeSet of usize in ascending order. *)
RECURSIVE Ascending(_)
Ascending(S) ==
    IF S = {} THEN <<>>
    ELSE LET least == CHOOSE x \in S : \A y \in S : x <= y
         IN  <<least>> \o Ascending(S \ {least})

(* path_finder: the loop over neighborhood[current_node], from its k-th     *)
(* element on; st is [visited, paths].  neighborhood[i + 1] and             *)
(* lengths[i + 1] belong to node i.  st.calls is the log of the calls of    *)
(* path_finder that have returned: the node of the call, the visited set   *)
(* it was entered with and the visited set it left.                        *)

(* Mutant: the length of a path includes the length of its target. *)
RECURSIVE PathFinderCountTarget(_, _, _, _, _, _, _)
PathFinderCountTarget(current_node, current_length, neighborhood, lengths, targets, k, st) ==
    IF k > Len(neighborhood[current_node + 1]) THEN st
    ELSE LET ni == neighborhood[current_node + 1][k] IN
         PathFinderCountTarget(current_node, current_length, neighborhood, lengths, targets,
             k + 1,
             IF ni \in targets
             THEN [st EXCEPT !.paths =
                      Append(@, [target_node |-> ni,
                                 length |-> Add(current_length, lengths[ni + 1])])]
             ELSE IF ~contains(st.visited, ni)
             THEN LET below == PathFinderCountTarget(ni, Add(current_length, lengths[ni + 1]),
                                   neighborhood, lengths, targets, 1,
                                   [st EXCEPT !.visited = set(@, ni, TRUE)])
                  IN  [below EXCEPT !.visited = set(@, ni, FALSE),
                                    !.calls = Append(@, [node |-> ni,
                                                         entered |-> set(st.visited, ni, TRUE),
                                                         left |-> below.visited])]
             ELSE st)

(* Mutant: the search leaves the node it went down through marked. *)
RECURSIVE PathFinderNoRestore(_, _, _, _, _, _, _)
PathFinderNoRestore(current_node, current_length, neighborhood, lengths, targets, k, st) ==
    IF k > Len(neighborhood[current_node + 1]) THEN st
    ELSE LET ni == neighborhood[current_node + 1][k] IN
         PathFinderNoRestore(current_node, current_length, neighborhood, lengths, targets,
             k + 1,
             IF ni \in targets
             THEN [st EXCEPT !.paths =
                      Append(@, [target_node |-> ni, length |-> current_length])]
             ELSE IF ~contains(st.visited, ni)
             THEN LET below == PathFinderNoRestore(ni, Add(current_length, lengths[ni + 1]),
                                   neighborhood, lengths, targets, 1,
                                   [st EXCEPT !.visited = set(@, ni, TRUE)])
                  IN  [below EXCEPT !.calls = Append(@, [node |-> ni,
                                                         entered |-> set(st.visited, ni, TRUE),
                                                         left |-> below.visited])]
             ELSE st)

RECURSIVE PathFinderFrom(_, _, _, _, _, _, _)
PathFinderFrom(current_node, current_length, neighborhood, lengths, targets, k, st) ==
    IF k > Len(neighborhood[current_node + 1]) THEN st
    ELSE LET ni == neighborhood[current_node + 1][k] IN
         PathFinderFrom(current_node, current_length, neighborhood, lengths, targets,
             k + 1,
             IF ni \in targets
             THEN [st EXCEPT !.paths =
                      Append(@, [target_node |-> ni, length |-> current_length])]
             ELSE IF ~contains(st.visited, ni)
             THEN LET below == PathFinderFrom(ni, Add(current_length, lengths[ni + 1]),
                                   neighborhood, lengths, targets, 1,
                                   [st EXCEPT !.visited = set(@, ni, TRUE)])
                  IN  [below EXCEPT !.visited = set(@, ni, FALSE),
                                    !.calls = Append(@, [node |-> ni,
                                                         entered |-> set(st.visited, ni, TRUE),
                                                         left |-> below.visited])]
             ELSE st)

(* One call of path_finder from outside, calls the log so far. *)
path_finder(current_node, current_length, neighborhood, lengths, targets, visited, paths) ==
    LET found == PathFinderFrom(current_node, current_length, neighborhood, lengths,
                                targets, 1,
                                [visited |-> visited, paths |-> paths, calls |-> <<>>])
    IN  [found EXCEPT !.calls = Append(@, [node |-> current_node,
                                           entered |-> visited,
                                           left |-> found.visited])]

(* FixedBitSet::clear *)
clear(bs) == [bs EXCEPT !.bits = {}]

(* The StructuredGraph: a map from the processing nodes to their           *)
(* StructuredNode; visited_after is the bit set as the search of the node   *)
(* left it and calls the log of the calls of path_finder of that search.    *)
into_structured_graph(g, threshold) ==
    LET neighbors == [src \in {pair[1] : pair \in g.edges} |->
                         {pair[2] : pair \in {q \in g.edges : q[1] = src}}]
        processing_nodes == {i \in 0 .. (Len(g.nodes) - 1) :
                                g.nodes[i + 1].type_count >= threshold}
        neighborhood == [k \in 1 .. Len(g.nodes) |->
                            IF (k - 1) \in DOMAIN neighbors
                            THEN Ascending(neighbors[k - 1])
                            ELSE <<>>]
        lengths == [k \in 1 .. Len(g.nodes) |-> g.nodes[k].length]
        visited == with_capacity(Len(g.nodes))
    IN  [nodes |->
           [pnode \in processing_nodes |->
               LET found == path_finder(pnode, LengthZero, neighborhood, lengths,
                                        processing_nodes, clear(visited), <<>>)
               IN  [length |-> g.nodes[pnode + 1].length,
                    type_count |-> g.nodes[pnode + 1].type_count,
                    connections |-> found.paths,
                    visited_after |-> found.visited,
                    calls |-> found.calls]]]

----------------------------------------------------------------------------
(* The collapse of the edge list of a GraphBuilder and the path search on   *)
(* the result. *)

(* The edge lists: every list of up to MaxEdges edges between different     *)
(* nodes up to MaxNodeId with a type_count up to MaxTypeCount, the edge at   *)
(* position k of length 1 / 2^k, and the longer lists of the scenarios.     *)
(* The state of an edge plays no part in the collapse. *)

EdgeOf(src, dst, type_count, exp) ==
    [src_node |-> src,
     dst_node |-> dst,
     length |-> [num |-> 1, exp |-> exp],
     type_count |-> type_count,
     network_state |-> with_capacity(1)]

EdgeKinds ==
    {<<src, dst, tc>> \in (0 .. MaxNodeId) \X (0 .. MaxNodeId) \X (0 .. MaxTypeCount) :
        src # dst}

(* The list of the edges of the given kinds, in their order. *)
EdgeListOf(kinds) ==
    [k \in 1 .. Len(kinds) |-> EdgeOf(kinds[k][1], kinds[k][2], kinds[k][3], k)]

ScenarioEdgeLists ==
    { <<EdgeOf(0, 1, 1, 0), EdgeOf(0, 1, 3, 1)>>,
      <<EdgeOf(0, 1, 3, 0), EdgeOf(0, 1, 1, 1)>>,
      <<EdgeOf(0, 1, 2, 0), EdgeOf(1, 0, 0, 1), EdgeOf(0, 1, 2, 2), EdgeOf(0, 1, 1, 3),
        EdgeOf(1, 0, 1, 4)>>,
      <<EdgeOf(0, 1, 1, 0), EdgeOf(1, 2, 0, 1), EdgeOf(2, 3, 1, 2)>>,
      <<EdgeOf(0, 1, 1, 0), EdgeOf(1, 2, 1, 1), EdgeOf(2, 0, 0, 2)>>,
      <<EdgeOf(0, 1, 1, 0), EdgeOf(1, 2, 0, 1), EdgeOf(2, 1, 0, 2), EdgeOf(2, 3, 1, 3),
        EdgeOf(1, 4, 0, 4), EdgeOf(4, 2, 0, 5)>> }

Greatest(S) == CHOOSE x \in S : \A y \in S : x >= y

Thresholds == 0 .. (MaxTypeCount + 1)

GraphInit ==
    /\ \/ \E n \in 1 .. MaxEdges :
             \E kinds \in [1 .. n -> EdgeKinds] : edges = EdgeListOf(kinds)
       \/ edges \in ScenarioEdgeLists
    /\ next_node_id = Greatest(NodeIds(edges)) + 1
    /\ network = None
    /\ zygote = None
    /\ generation = 0
    /\ allocated = <<>>
    /\ ScanIdle
    /\ GraphIdle
    /\ BaseIdle

(* One call of GraphBuilder::into_node_graph. *)
IntoNodeGraph ==
    /\ node_graph = NotCalled
    /\ node_graph' = Some(into_node_graph(edges))
    /\ UNCHANGED <<type_processing, structured_graph, scanVars, devVars, baseVars>>

(* One call of NodeGraph::into_structured_graph on the graph returned. *)
IntoStructuredGraph(threshold) ==
    /\ node_graph.some
    /\ structured_graph = NotCalled
    /\ type_processing' = threshold
    /\ structured_graph' = Some(into_structured_graph(node_graph.val, threshold))
    /\ UNCHANGED <<node_graph, scanVars, devVars, baseVars>>

GraphNext ==
    \/ IntoNodeGraph
    \/ \E threshold \in Thresholds : IntoStructuredGraph(threshold)

SpecGraph == GraphInit /\ [][GraphNext]_vars

(* The development followed by the collapse of the edge list it has reached, *)
(* as in main. *)
DevGraphNext ==
    \/ GraphBuilderNext
    \/ IntoNodeGraph

SpecDevGraph == DevInit /\ [][DevGraphNext]_vars

----------------------------------------------------------------------------
(* Properties of the collapse. *)

PairOf(edge) == <<edge.src_node, edge.dst_node>>

(* The (src_node, dst_node) pairs of the list, and the positions of the     *)
(* edges with a given pair. *)
Pairs(es) == {PairOf(es[k]) : k \in 1 .. Len(es)}

Sharing(es, pair) == {k \in 1 .. Len(es) : PairOf(es[k]) = pair}

(* The position of the edge to keep for the pair: the highest type_count,   *)
(* and the first of those that have it. *)
Kept(es, pair) ==
    CHOOSE k \in Sharing(es, pair) :
        \A j \in Sharing(es, pair) :
            \/ es[k].type_count > es[j].type_count
            \/ (es[k].type_count = es[j].type_count /\ k <= j)

InfoOf(edge) == [length |-> edge.length, type_count |-> edge.type_count]

(* The surviving edge that is node i of the NodeGraph: the nodes are in the *)
(* order of the pairs, by src_node and then dst_node. *)
SurvivorAt(es, i) ==
    LET pair == CHOOSE q \in Pairs(es) :
                    Cardinality({r \in Pairs(es) : KeyLess(r, q)}) = i
    IN  es[Kept(es, pair)]

(* C11: the NodeGraph has one node per distinct (src_node, dst_node) pair   *)
(* of the edge list, and the node of a pair is the edge with the highest     *)
(* type_count among those of the pair, the first in the list of those with   *)
(* that type_count; a list of two edges of the same pair with type_counts 1  *)
(* and 3, in either order, leaves the one with 3. *)
C11_OnePerPair ==
    node_graph.some =>
        LET g == node_graph.val IN
        /\ Len(g.nodes) = Cardinality(Pairs(edges))
        /\ {g.nodes[k] : k \in 1 .. Len(g.nodes)}
               = {InfoOf(edges[Kept(edges, pair)]) : pair \in Pairs(edges)}
        /\ \A i \in 0 .. (Len(g.nodes) - 1) : g.nodes[i + 1] = InfoOf(SurvivorAt(edges, i))
        /\ (/\ Len(edges) = 2
            /\ PairOf(edges[1]) = PairOf(edges[2])
            /\ {edges[1].type_count, edges[2].type_count} = {1, 3})
           => (Len(g.nodes) = 1 /\ g.nodes[1].type_count = 3)

(* Five edges of two pairs collapsed: of the pair (0, 1) the first of the   *)
(* two edges with type_count 2 is kept, not the later one nor the one with   *)
(* type_count 1; of the pair (1, 0) the later edge, of the higher type_count. *)
C11_Witness ==
    /\ node_graph.some
    /\ Len(edges) = 5
    /\ edges[1].type_count = edges[3].type_count
    /\ PairOf(edges[1]) = PairOf(edges[3])
    /\ node_graph.val.nodes = <<[length |-> [num |-> 1, exp |-> 0], type_count |-> 2],
                                [length |-> [num |-> 1, exp |-> 4], type_count |-> 1]>>

(* C12: (i, j) is an edge of the NodeGraph iff the surviving edge that is   *)
(* node j leaves the node the surviving edge that is node i enters, and      *)
(* both members of every edge are indices of nodes. *)
C12_Connectivity ==
    node_graph.some =>
        LET g == node_graph.val
            indices == 0 .. (Len(g.nodes) - 1)
        IN  \A survivor \in {[i \in indices |-> SurvivorAt(edges, i)]} :
               /\ g.edges \subseteq indices \X indices
               /\ \A i \in indices : g.nodes[i + 1] = InfoOf(survivor[i])
               /\ \A i \in indices, j \in indices :
                     (<<i, j>> \in g.edges)
                        <=> (survivor[j].src_node = survivor[i].dst_node)

(* Six edges collapsed to six nodes: nodes with two successors, one with    *)
(* none, two nodes that are successors of each other. *)
C12_Witness ==
    /\ node_graph.some
    /\ Len(edges) = 6
    /\ Len(node_graph.val.nodes) = 6
    /\ node_graph.val.edges = {<<0, 1>>, <<0, 2>>, <<1, 3>>, <<1, 4>>, <<2, 5>>,
                               <<3, 1>>, <<3, 2>>, <<5, 3>>, <<5, 4>>}

----------------------------------------------------------------------------
(* Properties of the path search. *)

(* The processing nodes and the connective nodes of NodeGraph g. *)
Processing(g, threshold) ==
    {i \in 0 .. (Len(g.nodes) - 1) : g.nodes[i + 1].type_count >= threshold}

Connective(g, threshold) == (0 .. (Len(g.nodes) - 1)) \ Processing(g, threshold)

(* The last node of the path that leaves p through the nodes of c. *)
EndOf(p, c) == IF c = <<>> THEN p ELSE c[Len(c)]

(* The sequences of k pairwise distinct connective nodes that make a        *)
(* directed path p -> c[1] -> ... -> c[k]. *)
RECURSIVE ConnectivePaths(_, _, _, _)
ConnectivePaths(g, threshold, p, k) ==
    IF k = 0 THEN {<<>>}
    ELSE {Append(x[1], x[2]) :
             x \in {y \in ConnectivePaths(g, threshold, p, k - 1)
                            \X Connective(g, threshold) :
                        /\ \A m \in 1 .. Len(y[1]) : y[1][m] # y[2]
                        /\ <<EndOf(p, y[1]), y[2]>> \in g.edges}}

(* The paths <<c, q>> from p through connective nodes c to a processing     *)
(* node q. *)
PathsFrom(g, threshold, p) ==
    {x \in (UNION {ConnectivePaths(g, threshold, p, k) :
                      k \in 0 .. Cardinality(Connective(g, threshold))})
              \X Processing(g, threshold) :
        <<EndOf(p, x[1]), x[2]>> \in g.edges}

(* The sum of the lengths of the nodes of c. *)
RECURSIVE LengthOf(_, _)
LengthOf(g, c) ==
    IF c = <<>> THEN LengthZero
    ELSE Add(LengthOf(g, SubSeq(c, 1, Len(c) - 1)), g.nodes[c[Len(c)] + 1].length)

RecordOf(g, path) == [target_node |-> path[2], length |-> LengthOf(g, path[1])]

(* C13: the StructuredGraph has an entry for exactly the nodes whose        *)
(* type_count reaches the threshold, with the length and type_count of the   *)
(* node; the connections of p hold, for every path from p through pairwise   *)
(* distinct connective nodes to a processing node q, one record of q and     *)
(* the sum of the lengths of the connective nodes, and nothing else; a       *)
(* processing successor of p gives a record of length 0, and the chain       *)
(* processing -> connective of length 1/2 -> processing a record of 1/2. *)
C13_Paths ==
    structured_graph.some =>
        LET g == node_graph.val
            sg == structured_graph.val
            t == type_processing
        IN  /\ DOMAIN sg.nodes = Processing(g, t)
            /\ \A p \in Processing(g, t) :
                  LET connections == sg.nodes[p].connections
                      paths == PathsFrom(g, t, p)
                  IN  /\ sg.nodes[p].length = g.nodes[p + 1].length
                      /\ sg.nodes[p].type_count = g.nodes[p + 1].type_count
                      /\ Len(connections) = Cardinality(paths)
                      /\ \A path \in paths :
                            Cardinality({k \in 1 .. Len(connections) :
                                            connections[k] = RecordOf(g, path)})
                               = Cardinality({x \in paths :
                                                 RecordOf(g, x) = RecordOf(g, path)})
                      /\ \A q \in Processing(g, t) :
                            <<p, q>> \in g.edges =>
                               \E k \in 1 .. Len(connections) :
                                  connections[k] = [target_node |-> q,
                                                    length |-> LengthZero]
            /\ (/\ Len(g.nodes) = 3
                /\ g.edges = {<<0, 1>>, <<1, 2>>}
                /\ Processing(g, t) = {0, 2}
                /\ g.nodes[2].length = [num |-> 1, exp |-> 1])
               => /\ sg.nodes[0].connections
                        = <<[target_node |-> 2, length |-> [num |-> 1, exp |-> 1]]>>
                  /\ sg.nodes[2].connections = <<>>

(* The search, from processing node 0 of a graph of six nodes, found four  *)
(* paths to processing node 4 through the connective nodes 1, 2, 3 and 5,    *)
(* which are on a cycle: 1 alone, 2 and 5, and all four in two orders,       *)
(* which gives the same record twice. *)
C13_Witness ==
    /\ structured_graph.some
    /\ type_processing = 1
    /\ Len(node_graph.val.nodes) = 6
    /\ DOMAIN structured_graph.val.nodes = {0, 4}
    /\ structured_graph.val.nodes[0].connections
          = <<[target_node |-> 4, length |-> [num |-> 27, exp |-> 5]],
              [target_node |-> 4, length |-> [num |-> 1, exp |-> 1]],
              [target_node |-> 4, length |-> [num |-> 27, exp |-> 5]],
              [target_node |-> 4, length |-> [num |-> 3, exp |-> 5]]>>
    /\ structured_graph.val.nodes[4].connections = <<>>

(* The chain of the scenario: processing, connective of length 1/2,        *)
(* processing. *)
C13_ChainWitness ==
    /\ structured_graph.some
    /\ Len(node_graph.val.nodes) = 3
    /\ node_graph.val.edges = {<<0, 1>>, <<1, 2>>}
    /\ DOMAIN structured_graph.val.nodes = {0, 2}
    /\ structured_graph.val.nodes[0].connections
          = <<[target_node |-> 2, length |-> [num |-> 1, exp |-> 1]]>>

(* Every directed path from p through pairwise distinct connective nodes,   *)
(* the empty one included. *)
WalksFrom(g, threshold, p) ==
    UNION {ConnectivePaths(g, threshold, p, k) :
              k \in 0 .. Cardinality(Connective(g, threshold))}

NodesOf(c) == {c[m] : m \in 1 .. Len(c)}

(* C22: the path search from every processing node of every NodeGraph,      *)
(* cyclic or not, returns after finitely many calls of path_finder: one     *)
(* call for each directed path from the start through pairwise distinct    *)
(* connective nodes, entered with exactly the nodes of that path marked,    *)
(* and the last of them the call from outside, entered with nothing         *)
(* marked.  Every call leaves the visited set as it was when the call was   *)
(* entered, so after the search of a node the set is all clear.             *)
C22_VisitedRestored ==
    structured_graph.some =>
        \A p \in DOMAIN structured_graph.val.nodes :
           \A walks \in {WalksFrom(node_graph.val, type_processing, p)} :
              LET g == node_graph.val
                  found == structured_graph.val.nodes[p]
                  marked(c) == [len |-> Len(g.nodes), bits |-> NodesOf(c)]
              IN  /\ Len(found.calls) = Cardinality(walks)
                  /\ \A c \in walks :
                        Cardinality({n \in 1 .. Len(found.calls) :
                                        /\ found.calls[n].node = EndOf(p, c)
                                        /\ found.calls[n].entered = marked(c)})
                           = Cardinality({x \in walks : /\ EndOf(p, x) = EndOf(p, c)
                                                        /\ NodesOf(x) = NodesOf(c)})
                  /\ \A n \in 1 .. Len(found.calls) :
                        found.calls[n].left = found.calls[n].entered
                  /\ found.calls[Len(found.calls)]
                        = [node |-> p,
                           entered |-> with_capacity(Len(g.nodes)),
                           left |-> with_capacity(Len(g.nodes))]
                  /\ found.visited_after = with_capacity(Len(g.nodes))

(* A search that went three connective nodes deep on a cycle of connective *)
(* nodes: the node of the call has an edge to a node that is marked.        *)
C22_Witness ==
    /\ structured_graph.some
    /\ \E p \in DOMAIN structured_graph.val.nodes :
          \E n \in 1 .. Len(structured_graph.val.nodes[p].calls) :
             LET call == structured_graph.val.nodes[p].calls[n] IN
             /\ Cardinality(call.entered.bits) >= 3
             /\ \E back \in call.entered.bits \ {call.node} :
                   <<call.node, back>> \in node_graph.val.edges

(* A search that came back to the processing node it started from through   *)
(* a connective node. *)
C22_BackToStart ==
    /\ structured_graph.some
    /\ \E p \in DOMAIN structured_graph.val.nodes :
          \E n \in 1 .. Len(structured_graph.val.nodes[p].calls) :
             LET call == structured_graph.val.nodes[p].calls[n] IN
             /\ call.node # p
             /\ <<call.node, p>> \in node_graph.val.edges
             /\ \E k \in 1 .. Len(structured_graph.val.nodes[p].connections) :
                   structured_graph.val.nodes[p].connections[k].target_node = p

----------------------------------------------------------------------------
(* Properties of the developed edge list and its collapse. *)

(* C23: in every state of the builder, for every network and every zygote,  *)
(* every edge has a src_node different from its dst_node, and the NodeGraph *)
(* collapsed from the edge list has no pair (i, i).                         *)
C23_NoSelfLoop ==
    /\ \A k \in 1 .. Len(edges) : edges[k].src_node # edges[k].dst_node
    /\ node_graph.some =>
          \A i \in 0 .. (Len(node_graph.val.nodes) - 1) :
             <<i, i>> \notin node_graph.val.edges

(* The collapse of a list whose first edge was split, duplicated and        *)
(* swapped in the last step, with more edges than pairs. *)
C23_Witness ==
    /\ generation >= 2
    /\ node_graph.some
    /\ {EDGE_SPLIT, EDGE_DUPLICATE, EDGE_SWAP} \subseteq edges[1].network_state.bits
    /\ Len(node_graph.val.nodes) = Cardinality(Pairs(edges))
    /\ Len(node_graph.val.nodes) < Len(edges)
    /\ node_graph.val.edges # {}

====
